---- MODULE Spec2Model ----
(***************************************************************************)
(* POST /api/convert of PDF2Excel: the upload gate, the credential check,  *)
(* the Gemini generateContent call with its 9 second timer, and the        *)
(* assembly of the workbook from the three extraction variants.            *)
(*                                                                         *)
(* Two deployment targets are modelled side by side: "api" is              *)
(* src/api/index.ts (the serverless target), "server" is the handler at    *)
(* the head of src/server.ts (the development target).                     *)
(*                                                                         *)
(* File sizes are counted in MB.  A sheet is represented by the array of   *)
(* rows that addSheet hands to XLSX.utils.aoa_to_sheet; the binary         *)
(* encoding done by the spreadsheet library is not modelled.               *)
(***************************************************************************)
EXTENDS Integers, Sequences, FiniteSets, TLC

\* ------------------------------------------------------------------ bounds
NumReqs == 2        \* concurrent requests
MaxTables == 2      \* tables per variant in an AI reply
MaxFiles == 2       \* distinct files the user picks from
MaxConversions == 2 \* requests the client sends
MaxTicks == 2       \* steps of the clock, each half of the 30 day window

\* --------------------------------------------------------------- constants
MAX_FILE_SIZE == 4          \* api/index.ts, in MB
ServerFileSize == 10        \* server.ts, in MB

Reqs == 1..NumReqs
Targets == {"api", "server"}

VARIABLES
    target,     \* which deployment is running
    apiKey,     \* TRUE iff process.env.GEMINI_API_KEY is set
    pc,         \* per request: position in the middleware chain
    request,    \* per request: the multipart body received
    file,       \* per request: TRUE iff req.file is set by multer
    aiCalls,    \* per request: number of generateContent calls issued
    timer,      \* per request: state of the setTimeout of the handler
    aborted,    \* per request: controller.signal.aborted
    reply,      \* per request: how the generateContent promise settled
    wb,         \* per request: the workbook under assembly
    resp,       \* per request: the response sent
    nresp       \* per request: number of responses sent

serverVars == <<target, apiKey, pc, request, file, aiCalls, timer, aborted, reply,
                wb, resp, nresp>>

\* The browser client: App of src/src/App.tsx and App of src/server.ts.
VARIABLES
    client,         \* which App is running
    selectedFile,   \* the state `file`
    status,
    error,
    downloadUrl,
    user,           \* TRUE iff a user is signed in
    showAuthModal,
    authLoading,
    cookie,         \* the cookie pdf_uploads
    now,            \* Date.now(), in days
    pending,        \* the handleConvert calls awaiting their fetch
    sent            \* number of requests sent to /api/convert

clientVars == <<client, selectedFile, status, error, downloadUrl, user,
                showAuthModal, authLoading, cookie, now, pending, sent>>

vars == <<serverVars, clientVars>>

\* ------------------------------------------------------------ request data
FileSizeLimit(t) == IF t = "api" THEN MAX_FILE_SIZE ELSE ServerFileSize

Sizes == {MAX_FILE_SIZE, MAX_FILE_SIZE + 1, ServerFileSize, ServerFileSize + 1}

\* part: "none" no file part, "pdf" a file in field pdf, "doc" a file in
\* another field, "malformed" a multipart body the parser rejects.
Requests ==
    {[part |-> "none", size |-> 0], [part |-> "malformed", size |-> 0]}
    \cup [part : {"pdf", "doc"}, size : Sizes]

NoRequest == [part |-> "unset", size |-> 0]

\* --------------------------------------------------------------- responses
NoResp == [status |-> 0, body |-> "none", error |-> "", sheets |-> <<>>]

JsonError(code, message) ==
    [status |-> code, body |-> "json", error |-> message, sheets |-> <<>>]

\* Express' default error handler: err.status is not set on these errors.
DefaultErrorHandler(message) ==
    [status |-> 500, body |-> "html", error |-> message, sheets |-> <<>>]

SendBuffer(book) ==
    [status |-> 200, body |-> "xlsx", error |-> "", sheets |-> book]

\* ------------------------------------------------------------- upload gate
\* multer: upload.single("pdf") with limits.fileSize
NoUploadError == [multer |-> FALSE, code |-> "", message |-> ""]

uploadSingle(t, q) ==
    CASE q.part = "malformed" ->
           [err |-> [multer |-> FALSE, code |-> "", message |-> "Unexpected end of form"],
            file |-> FALSE]
      [] q.part = "doc" ->
           [err |-> [multer |-> TRUE, code |-> "LIMIT_UNEXPECTED_FILE", message |-> "Unexpected field"],
            file |-> FALSE]
      [] q.part = "pdf" /\ q.size > FileSizeLimit(t) ->
           [err |-> [multer |-> TRUE, code |-> "LIMIT_FILE_SIZE", message |-> "File too large"],
            file |-> FALSE]
      [] q.part = "pdf" -> [err |-> NoUploadError, file |-> TRUE]
      [] OTHER -> [err |-> NoUploadError, file |-> FALSE]

\* The callback given to upload.single in api/index.ts; NoResp means next().
UploadCallback(err) ==
    IF err.multer
    THEN IF err.code = "LIMIT_FILE_SIZE"
         THEN JsonError(413, "El archivo es demasiado grande")
         ELSE JsonError(400, "Error de carga")
    ELSE IF err # NoUploadError
         THEN JsonError(500, "Error interno")
         ELSE NoResp

\* server.ts mounts upload.single("pdf") directly: multer calls next(err).
UploadMiddleware(err) ==
    IF err # NoUploadError THEN DefaultErrorHandler(err.message) ELSE NoResp

\* ------------------------------------------------------- conversion handler
\* PreCheck without the test of req.file
PreCheckNoFileTest(t, hasFile, key) ==
    IF t = "api" /\ ~key
    THEN JsonError(500, "Configuracion incompleta: Falta la clave de API de Gemini.")
    ELSE NoResp

\* The checks at the head of the handler; NoResp means the handler goes on.
\* server.ts has no credential check.
PreCheck(t, hasFile, key) ==
    IF ~hasFile
    THEN JsonError(400, IF t = "api" THEN "No se ha recibido ningun archivo PDF."
                                     ELSE "No file uploaded")
    ELSE IF t = "api" /\ ~key
         THEN JsonError(500, "Configuracion incompleta: Falta la clave de API de Gemini.")
         ELSE NoResp

\* ---------------------------------------------------------------- AI reply
Keys == {"best_effort", "structured_view", "raw_data"}

RowH == <<"A", "B">>
RowD == <<"1", "2">>

ReplyTables == {<<>>, <<RowH, RowD>>}

\* a variant: an array of at most MaxTables tables
VariantData == UNION {[1..n -> ReplyTables] : n \in 0..MaxTables}

\* a reply object: any subset of the three keys may be absent
AllObjects == UNION {[S -> VariantData] : S \in SUBSET Keys}

EmptyObj == [k \in {} |-> <<>>]

\* result.text: undefined, "", text that is not JSON, "null", or an object
TextOf(obj) == [kind |-> "object", val |-> obj]
UndefinedText == [kind |-> "undefined", val |-> EmptyObj]
EmptyText == [kind |-> "empty", val |-> EmptyObj]
GarbageText == [kind |-> "garbage", val |-> EmptyObj]
NullText == [kind |-> "null", val |-> EmptyObj]
BraceText == TextOf(EmptyObj)

OtherTexts == {UndefinedText, EmptyText, GarbageText, NullText}

AllTexts == OtherTexts \cup {TextOf(o) : o \in AllObjects}

SampleObjects ==
    { EmptyObj,
      [k \in Keys |-> <<>>],
      [k \in Keys |-> IF k = "best_effort" THEN << <<RowH, RowD>> >> ELSE <<>>],
      [k \in {"raw_data"} |-> << <<RowH, RowD>> >>],
      [k \in Keys |-> IF k = "best_effort" THEN << <<RowH, RowD>>, <<>> >>
                      ELSE IF k = "raw_data" THEN << <<>> >>
                      ELSE << <<RowH, RowD>> >>] }

SampleTexts == OtherTexts \cup {TextOf(o) : o \in SampleObjects}

\* errors thrown or rejected with
NoErr == [name |-> "", message |-> ""]
AiErrors == [name : {"ApiError", "AbortError"}, message : {"", "upstream"}]

NoReply == [kind |-> "none", text |-> UndefinedText, err |-> NoErr]
Resolved(text) == [kind |-> "resolved", text |-> text, err |-> NoErr]
Rejected(e) == [kind |-> "rejected", text |-> UndefinedText, err |-> e]

\* TextOrDefault without the default
TextOrDefaultMissing(text) == text

\* result.text || "{}"
TextOrDefault(text) ==
    IF text.kind \in {"undefined", "empty"} THEN BraceText ELSE text

\* JSON.parse
JSONParse(text) ==
    CASE text.kind = "object" -> [err |-> NoErr, isNull |-> FALSE, val |-> text.val]
      [] text.kind = "null" -> [err |-> NoErr, isNull |-> TRUE, val |-> EmptyObj]
      [] OTHER -> [err |-> [name |-> "SyntaxError", message |-> "is not valid JSON"],
                   isNull |-> FALSE, val |-> EmptyObj]

\* extraction.<key>
Get(obj, key) ==
    IF key \in DOMAIN obj THEN [def |-> TRUE, v |-> obj[key]]
                          ELSE [def |-> FALSE, v |-> <<>>]

\* table.forEach(row => combinedRows.push(row))
RECURSIVE PushRows(_, _, _)
PushRows(combinedRows, table, j) ==
    IF j > Len(table) THEN combinedRows
    ELSE PushRows(Append(combinedRows, table[j]), table, j + 1)

\* ForEachTable pushing the empty row before the first table as well
RECURSIVE ForEachTableBlankFirst(_, _, _)
ForEachTableBlankFirst(combinedRows, data, index) ==
    IF index > Len(data) THEN combinedRows
    ELSE ForEachTableBlankFirst(
            PushRows(Append(combinedRows, <<>>), data[index], 1),
            data, index + 1)

\* ForEachTable pushing no empty row at all
RECURSIVE ForEachTableNoBlank(_, _, _)
ForEachTableNoBlank(combinedRows, data, index) ==
    IF index > Len(data) THEN combinedRows
    ELSE ForEachTableNoBlank(PushRows(combinedRows, data[index], 1), data, index + 1)

\* data.forEach((table, index) => {...}); index here is 1-based
RECURSIVE ForEachTable(_, _, _)
ForEachTable(combinedRows, data, index) ==
    IF index > Len(data) THEN combinedRows
    ELSE ForEachTable(
            PushRows(IF index > 1 THEN Append(combinedRows, <<>>) ELSE combinedRows,
                     data[index], 1),
            data, index + 1)

addSheet(book, data, sheetName) ==
    IF ~data.def \/ Len(data.v) = 0 THEN book
    ELSE Append(book, [name |-> sheetName, rows |-> ForEachTable(<<>>, data.v, 1)])

\* BuildWorkbook adding the sheets in the order of the keys of the schema
BuildWorkbookSchemaOrder(extraction) ==
    addSheet(
      addSheet(
        addSheet(<<>>, Get(extraction, "best_effort"), "Mejor Resultado"),
        Get(extraction, "raw_data"), "Datos Brutos"),
      Get(extraction, "structured_view"), "Vista Estructurada")

\* the three addSheet calls
BuildWorkbook(extraction) ==
    addSheet(
      addSheet(
        addSheet(<<>>, Get(extraction, "best_effort"), "Mejor Resultado"),
        Get(extraction, "structured_view"), "Vista Estructurada"),
      Get(extraction, "raw_data"), "Datos Brutos")

\* XLSX.write refuses a workbook without sheets
XLSXWrite(book) ==
    IF Len(book) = 0 THEN [name |-> "Error", message |-> "Workbook is empty"]
                     ELSE NoErr

\* From JSON.parse to res.send: the synchronous code after the await.
\* err is what the code throws, if it throws.
Convert(text) ==
    LET p == JSONParse(TextOrDefault(text))
    IN  IF p.err # NoErr THEN [err |-> p.err, book |-> <<>>]
        ELSE IF p.isNull
             THEN [err |-> [name |-> "TypeError",
                            message |-> "Cannot read properties of null"],
                   book |-> <<>>]
             ELSE LET book == BuildWorkbook(p.val)
                  IN  [err |-> XLSXWrite(book), book |-> book]

\* catch (error) at the end of both handlers
OuterCatch(t, e) ==
    JsonError(500, IF e.message # "" THEN e.message
                   ELSE IF t = "api" THEN "Error interno del servidor"
                                     ELSE "Failed to convert PDF")

\* InnerCatch reporting every error of the call as a timeout
InnerCatchAlways504(e) ==
    JsonError(504, "La IA tardo demasiado en responder.")

\* catch (geminiErr) of api/index.ts
InnerCatch(e) ==
    IF e.name = "AbortError"
    THEN JsonError(504, "La IA tardo demasiado en responder.")
    ELSE OuterCatch("api", e)

Catch(t, e) == IF t = "api" THEN InnerCatch(e) ELSE OuterCatch(t, e)

\* clearTimeout(timeoutId)
ClearTimeout(tm) == IF tm = "armed" THEN "cleared" ELSE tm

\* ------------------------------------------------------------------ client
Clients == {"App.tsx", "server.ts"}

PdfType == "application/pdf"
FileIds == 1..MaxFiles
Files == [id : FileIds, type : {PdfType, "text/plain"}]
NoFile == [id |-> 0, type |-> ""]

NullError == "<null>"
NullUrl == 0

InvalidPdfMessage == "Por favor, selecciona un archivo PDF valido."
LimitMessage == "Has alcanzado el limite de 3 archivos en 30 dias para usuarios no registrados."

thirtyDaysInMs == 30        \* counted in days
UploadLimit == 3
KeepLast == 10
CookieExpires == 30         \* days

TickDays == thirtyDaysInMs \div 2

\* the cookie pdf_uploads: the array written by recordUpload and the day of
\* the write, from which its expiry runs
NoCookie == [set |-> FALSE, at |-> 0, uploads |-> <<>>]

\* Cookies.get('pdf_uploads') followed by JSON.parse; absent or expired
\* gives the empty array
CookiesGet(c, t) ==
    IF c.set /\ t - c.at < CookieExpires THEN c.uploads ELSE <<>>

\* uploads.filter(t => now - t < thirtyDaysInMs)
RECURSIVE FilterRecent(_, _, _)
FilterRecent(uploads, t, i) ==
    IF i > Len(uploads) THEN <<>>
    ELSE (IF t - uploads[i] < thirtyDaysInMs THEN <<uploads[i]>> ELSE <<>>)
         \o FilterRecent(uploads, t, i + 1)

\* checkUsageLimit answering for 3 uploads as for 2
checkUsageLimitOffByOne(u, c, t) ==
    u \/ Len(FilterRecent(CookiesGet(c, t), t, 1)) <= UploadLimit

checkUsageLimit(u, c, t) ==
    u \/ ~(Len(FilterRecent(CookiesGet(c, t), t, 1)) >= UploadLimit)

\* uploads.slice(-10)
SliceLast(uploads) ==
    IF Len(uploads) <= KeepLast THEN uploads
    ELSE SubSeq(uploads, Len(uploads) - KeepLast + 1, Len(uploads))

recordUpload(u, c, t) ==
    IF u THEN c
    ELSE [set |-> TRUE, at |-> t, uploads |-> SliceLast(Append(CookiesGet(c, t), t))]

\* what the fetch of handleConvert can bring when it does not bring the
\* spreadsheet: a response that is not ok, or a rejected fetch
FetchFailures == {"json", "network"}

ErrorMessage(failure) ==
    IF failure = "json" THEN "Error en la conversion" ELSE "Failed to fetch"

\* the type test left out
IsPdfAnyType(f) == TRUE

\* the type test of handleFileChange and handleDrop
IsPdf(f) == f.type = PdfType

\* useState initial values
ClientMounted ==
    /\ selectedFile = NoFile
    /\ status = "idle"
    /\ error = NullError
    /\ downloadUrl = NullUrl
    /\ user = FALSE
    /\ showAuthModal = FALSE
    /\ authLoading = FALSE
    /\ now = 0
    /\ pending = {}
    /\ sent = 0

\* ------------------------------------------------------------------ Init
Init ==
    /\ target \in Targets
    /\ apiKey \in BOOLEAN
    /\ pc = [r \in Reqs |-> "idle"]
    /\ request = [r \in Reqs |-> NoRequest]
    /\ file = [r \in Reqs |-> FALSE]
    /\ aiCalls = [r \in Reqs |-> 0]
    /\ timer = [r \in Reqs |-> "unset"]
    /\ aborted = [r \in Reqs |-> FALSE]
    /\ reply = [r \in Reqs |-> NoReply]
    /\ wb = [r \in Reqs |-> <<>>]
    /\ resp = [r \in Reqs |-> NoResp]
    /\ nresp = [r \in Reqs |-> 0]
    /\ client = "App.tsx"
    /\ cookie = NoCookie
    /\ ClientMounted

\* The first middleware: the request arrives and is handed to the upload gate.
Receive(r, q) ==
    /\ pc[r] = "idle"
    /\ pc' = [pc EXCEPT ![r] = "upload"]
    /\ request' = [request EXCEPT ![r] = q]
    /\ UNCHANGED <<target, apiKey, file, aiCalls, timer, aborted, reply, wb, resp, nresp>>
    /\ UNCHANGED clientVars

\* Upload with the credential check moved in front of the upload gate
UploadChecksKeyFirst(r) ==
    /\ pc[r] = "upload"
    /\ LET u == uploadSingle(target, request[r])
           out == IF target = "api" /\ ~apiKey
                  THEN JsonError(500, "Configuracion incompleta: Falta la clave de API de Gemini.")
                  ELSE IF target = "api" THEN UploadCallback(u.err)
                                         ELSE UploadMiddleware(u.err)
       IN  /\ file' = [file EXCEPT ![r] = u.file]
           /\ IF out # NoResp
              THEN /\ resp' = [resp EXCEPT ![r] = out]
                   /\ nresp' = [nresp EXCEPT ![r] = @ + 1]
                   /\ pc' = [pc EXCEPT ![r] = "done"]
              ELSE /\ pc' = [pc EXCEPT ![r] = "handler"]
                   /\ UNCHANGED <<resp, nresp>>
    /\ UNCHANGED <<target, apiKey, request, aiCalls, timer, aborted, reply, wb>>
    /\ UNCHANGED clientVars

\* multer has consumed the body.
Upload(r) ==
    /\ pc[r] = "upload"
    /\ LET u == uploadSingle(target, request[r])
           out == IF target = "api" THEN UploadCallback(u.err) ELSE UploadMiddleware(u.err)
       IN  /\ file' = [file EXCEPT ![r] = u.file]
           /\ IF out # NoResp
              THEN /\ resp' = [resp EXCEPT ![r] = out]
                   /\ nresp' = [nresp EXCEPT ![r] = @ + 1]
                   /\ pc' = [pc EXCEPT ![r] = "done"]
              ELSE /\ pc' = [pc EXCEPT ![r] = "handler"]
                   /\ UNCHANGED <<resp, nresp>>
    /\ UNCHANGED <<target, apiKey, request, aiCalls, timer, aborted, reply, wb>>
    /\ UNCHANGED clientVars

\* The handler up to the await: the checks, then setTimeout and generateContent.
Handler(r) ==
    /\ pc[r] = "handler"
    /\ LET out == PreCheck(target, file[r], apiKey)
       IN  IF out # NoResp
           THEN /\ resp' = [resp EXCEPT ![r] = out]
                /\ nresp' = [nresp EXCEPT ![r] = @ + 1]
                /\ pc' = [pc EXCEPT ![r] = "done"]
                /\ UNCHANGED <<aiCalls, timer>>
           ELSE /\ timer' = [timer EXCEPT ![r] = IF target = "api" THEN "armed" ELSE @]
                /\ aiCalls' = [aiCalls EXCEPT ![r] = @ + 1]
                /\ pc' = [pc EXCEPT ![r] = "awaiting"]
                /\ UNCHANGED <<resp, nresp>>
    /\ UNCHANGED <<target, apiKey, request, file, aborted, reply, wb>>
    /\ UNCHANGED clientVars

\* TimerFire answering 504 from the timer callback while the call stays awaited
TimerFireResponds(r) ==
    /\ timer[r] = "armed"
    /\ timer' = [timer EXCEPT ![r] = "fired"]
    /\ aborted' = [aborted EXCEPT ![r] = TRUE]
    /\ resp' = [resp EXCEPT ![r] = JsonError(504, "La IA tardo demasiado en responder.")]
    /\ nresp' = [nresp EXCEPT ![r] = @ + 1]
    /\ UNCHANGED <<target, apiKey, pc, request, file, aiCalls, reply, wb>>
    /\ UNCHANGED clientVars

\* setTimeout(() => controller.abort(), 9000): the signal of the controller
\* is not handed to generateContent, so the pending call is not affected.
TimerFire(r) ==
    /\ timer[r] = "armed"
    /\ timer' = [timer EXCEPT ![r] = "fired"]
    /\ aborted' = [aborted EXCEPT ![r] = TRUE]
    /\ UNCHANGED <<target, apiKey, pc, request, file, aiCalls, reply, wb, resp, nresp>>
    /\ UNCHANGED clientVars

\* AiResolve with the workbook kept in one place for all requests
AiResolveSharedWorkbook(r, text) ==
    /\ pc[r] = "awaiting"
    /\ reply' = [reply EXCEPT ![r] = Resolved(text)]
    /\ timer' = [timer EXCEPT ![r] = ClearTimeout(@)]
    /\ LET c == Convert(text)
       IN  /\ wb' = [o \in Reqs |-> c.book]
           /\ resp' = [resp EXCEPT ![r] =
                         IF c.err = NoErr THEN SendBuffer(c.book) ELSE Catch(target, c.err)]
    /\ nresp' = [nresp EXCEPT ![r] = @ + 1]
    /\ pc' = [pc EXCEPT ![r] = "done"]
    /\ UNCHANGED <<target, apiKey, request, file, aiCalls, aborted>>
    /\ UNCHANGED clientVars

\* generateContent resolves: parse, assemble, write, send.
AiResolve(r, text) ==
    /\ pc[r] = "awaiting"
    /\ reply' = [reply EXCEPT ![r] = Resolved(text)]
    /\ timer' = [timer EXCEPT ![r] = ClearTimeout(@)]
    /\ LET c == Convert(text)
       IN  /\ wb' = [wb EXCEPT ![r] = c.book]
           /\ resp' = [resp EXCEPT ![r] =
                         IF c.err = NoErr THEN SendBuffer(c.book) ELSE Catch(target, c.err)]
    /\ nresp' = [nresp EXCEPT ![r] = @ + 1]
    /\ pc' = [pc EXCEPT ![r] = "done"]
    /\ UNCHANGED <<target, apiKey, request, file, aiCalls, aborted>>
    /\ UNCHANGED clientVars

\* AiReject calling generateContent again instead of answering
AiRejectRetry(r, e) ==
    /\ pc[r] = "awaiting"
    /\ reply' = [reply EXCEPT ![r] = Rejected(e)]
    /\ timer' = [timer EXCEPT ![r] = ClearTimeout(@)]
    /\ pc' = [pc EXCEPT ![r] = "handler"]
    /\ UNCHANGED <<target, apiKey, request, file, aiCalls, aborted, wb, resp, nresp>>
    /\ UNCHANGED clientVars

\* generateContent rejects.
AiReject(r, e) ==
    /\ pc[r] = "awaiting"
    /\ reply' = [reply EXCEPT ![r] = Rejected(e)]
    /\ timer' = [timer EXCEPT ![r] = ClearTimeout(@)]
    /\ resp' = [resp EXCEPT ![r] = Catch(target, e)]
    /\ nresp' = [nresp EXCEPT ![r] = @ + 1]
    /\ pc' = [pc EXCEPT ![r] = "done"]
    /\ UNCHANGED <<target, apiKey, request, file, aiCalls, aborted, wb>>
    /\ UNCHANGED clientVars

Next ==
    \E r \in Reqs :
        \/ \E q \in Requests : Receive(r, q)
        \/ Upload(r)
        \/ Handler(r)
        \/ TimerFire(r)
        \/ \E text \in SampleTexts : AiResolve(r, text)
        \/ \E e \in AiErrors : AiReject(r, e)

Spec == Init /\ [][Next]_vars
\* One request, every reply within the bounds.
NextReply ==
    \/ \E q \in Requests : Receive(1, q)
    \/ Upload(1)
    \/ Handler(1)
    \/ TimerFire(1)
    \/ \E text \in AllTexts : AiResolve(1, text)
    \/ \E e \in AiErrors : AiReject(1, e)

ReplySpec == Init /\ [][NextReply]_vars

\* The event loop runs every continuation that is ready and fires every timer
\* that is armed; the AI service is not obliged to answer.
FairSpec ==
    /\ Spec
    /\ \A r \in Reqs : WF_vars(Upload(r)) /\ WF_vars(Handler(r)) /\ WF_vars(TimerFire(r))
\* ----------------------------------------------------------- client actions
\* no request has reached the server
ServerIdle ==
    /\ target = "api"
    /\ apiKey = TRUE
    /\ pc = [r \in Reqs |-> "idle"]
    /\ request = [r \in Reqs |-> NoRequest]
    /\ file = [r \in Reqs |-> FALSE]
    /\ aiCalls = [r \in Reqs |-> 0]
    /\ timer = [r \in Reqs |-> "unset"]
    /\ aborted = [r \in Reqs |-> FALSE]
    /\ reply = [r \in Reqs |-> NoReply]
    /\ wb = [r \in Reqs |-> <<>>]
    /\ resp = [r \in Reqs |-> NoResp]
    /\ nresp = [r \in Reqs |-> 0]

\* The page is loaded in a browser that has no cookie yet, or that kept the
\* cookie of two conversions made on day 0 before the page was loaded again.
InitialCookies ==
    {NoCookie, recordUpload(FALSE, recordUpload(FALSE, NoCookie, 0), 0)}

ClientInit ==
    /\ ServerIdle
    /\ client \in Clients
    /\ cookie \in (IF client = "server.ts" THEN InitialCookies ELSE {NoCookie})
    /\ ClientMounted

\* a handleConvert call awaiting its fetch: its number, and the file and the
\* user of the render whose button was clicked
Conversions == [n : 1..MaxConversions, file : Files, user : BOOLEAN]

\* the auth modal lies over the whole page
PageReachable == ~showAuthModal

\* setFile / setError / setDownloadUrl / setStatus of a file selection
SelectFile(f) ==
    IF ~IsPdf(f)
    THEN /\ error' = InvalidPdfMessage
         /\ UNCHANGED <<selectedFile, downloadUrl, status>>
    ELSE /\ selectedFile' = f
         /\ error' = NullError
         /\ downloadUrl' = NullUrl
         /\ status' = "idle"

\* the hidden input is opened by a button that is rendered while no file is
\* selected
handleFileChange(f) ==
    /\ PageReachable
    /\ selectedFile = NoFile
    /\ SelectFile(f)
    /\ UNCHANGED <<client, user, showAuthModal, authLoading, cookie, now, pending, sent>>
    /\ UNCHANGED serverVars

\* the drop zone is rendered in every status
handleDrop(f) ==
    /\ PageReachable
    /\ SelectFile(f)
    /\ UNCHANGED <<client, user, showAuthModal, authLoading, cookie, now, pending, sent>>
    /\ UNCHANGED serverVars

\* the button Convertir a Excel, up to the await of fetch
handleConvert ==
    /\ PageReachable
    /\ status = "idle"
    /\ selectedFile # NoFile
    /\ sent < MaxConversions
    /\ IF client = "server.ts" /\ ~checkUsageLimit(user, cookie, now)
       THEN /\ error' = LimitMessage
            /\ status' = "error"
            /\ UNCHANGED <<pending, sent>>
       ELSE /\ status' = "processing"
            /\ error' = NullError
            /\ sent' = sent + 1
            /\ pending' = pending \cup
                   {[n |-> sent + 1, file |-> selectedFile, user |-> user]}
    /\ UNCHANGED <<client, selectedFile, downloadUrl, user, showAuthModal,
                   authLoading, cookie, now>>
    /\ UNCHANGED serverVars

\* the reply recorded whoever clicked
FetchOkAlwaysRecords(p) ==
    /\ p \in pending
    /\ pending' = pending \ {p}
    /\ downloadUrl' = p.file.id
    /\ status' = "success"
    /\ cookie' = IF client = "server.ts" THEN recordUpload(FALSE, cookie, now) ELSE cookie
    /\ UNCHANGED <<client, selectedFile, error, user, showAuthModal, authLoading, now, sent>>
    /\ UNCHANGED serverVars

\* response.ok: blob, createObjectURL, setDownloadUrl, setStatus and, in
\* server.ts, recordUpload with the user of the render that was clicked
FetchOk(p) ==
    /\ p \in pending
    /\ pending' = pending \ {p}
    /\ downloadUrl' = p.file.id
    /\ status' = "success"
    /\ cookie' = IF client = "server.ts" THEN recordUpload(p.user, cookie, now) ELSE cookie
    /\ UNCHANGED <<client, selectedFile, error, user, showAuthModal, authLoading, now, sent>>
    /\ UNCHANGED serverVars

\* the catch setting the message and not the status
FetchFailKeepsStatus(p, failure) ==
    /\ p \in pending
    /\ pending' = pending \ {p}
    /\ error' = ErrorMessage(failure)
    /\ UNCHANGED <<client, selectedFile, status, downloadUrl, user, showAuthModal,
                   authLoading, cookie, now, sent>>
    /\ UNCHANGED serverVars

\* a response that is not ok, or a rejected fetch
FetchFail(p, failure) ==
    /\ p \in pending
    /\ pending' = pending \ {p}
    /\ error' = ErrorMessage(failure)
    /\ status' = "error"
    /\ UNCHANGED <<client, selectedFile, downloadUrl, user, showAuthModal, authLoading,
                   cookie, now, sent>>
    /\ UNCHANGED serverVars

\* the button Reintentar
Retry ==
    /\ PageReachable
    /\ status = "error"
    /\ status' = "idle"
    /\ UNCHANGED <<client, selectedFile, error, downloadUrl, user, showAuthModal,
                   authLoading, cookie, now, pending, sent>>
    /\ UNCHANGED serverVars

\* the button Convertir otro archivo
ConvertAnother ==
    /\ PageReachable
    /\ status = "success" /\ downloadUrl # NullUrl
    /\ selectedFile' = NoFile
    /\ status' = "idle"
    /\ downloadUrl' = NullUrl
    /\ UNCHANGED <<client, error, user, showAuthModal, authLoading, cookie, now,
                   pending, sent>>
    /\ UNCHANGED serverVars

\* supabase.auth.onAuthStateChange / getSession: a session begins or ends
AuthStateChange ==
    /\ client = "server.ts"
    /\ user' = ~user
    /\ UNCHANGED <<client, selectedFile, status, error, downloadUrl, showAuthModal,
                   authLoading, cookie, now, pending, sent>>
    /\ UNCHANGED serverVars

\* the button Acceder and the close button of the modal
ToggleAuthModal ==
    /\ client = "server.ts"
    /\ showAuthModal \/ ~user
    /\ showAuthModal' = ~showAuthModal
    /\ UNCHANGED <<client, selectedFile, status, error, downloadUrl, user,
                   authLoading, cookie, now, pending, sent>>
    /\ UNCHANGED serverVars

\* the form of the modal is submitted
handleAuth ==
    /\ client = "server.ts"
    /\ showAuthModal /\ ~authLoading
    /\ authLoading' = TRUE
    /\ error' = NullError
    /\ UNCHANGED <<client, selectedFile, status, downloadUrl, user, showAuthModal,
                   cookie, now, pending, sent>>
    /\ UNCHANGED serverVars

\* supabase answers: the modal closes, or the message of the error is shown
AuthSettled(ok) ==
    /\ authLoading
    /\ authLoading' = FALSE
    /\ IF ok THEN showAuthModal' = FALSE /\ UNCHANGED error
             ELSE error' = "Invalid login credentials" /\ UNCHANGED showAuthModal
    /\ UNCHANGED <<client, selectedFile, status, downloadUrl, user, cookie, now,
                   pending, sent>>
    /\ UNCHANGED serverVars

\* time passes
Tick ==
    /\ now < MaxTicks * TickDays
    /\ now' = now + TickDays
    /\ UNCHANGED <<client, selectedFile, status, error, downloadUrl, user,
                   showAuthModal, authLoading, cookie, pending, sent>>
    /\ UNCHANGED serverVars

ClientNext ==
    \/ \E f \in Files : handleFileChange(f)
    \/ \E f \in Files : handleDrop(f)
    \/ handleConvert
    \/ \E p \in Conversions : FetchOk(p)
    \/ \E p \in Conversions, failure \in FetchFailures : FetchFail(p, failure)
    \/ Retry
    \/ ConvertAnother
    \/ AuthStateChange
    \/ ToggleAuthModal
    \/ handleAuth
    \/ \E ok \in BOOLEAN : AuthSettled(ok)
    \/ Tick

ClientSpec == ClientInit /\ [][ClientNext]_vars


\* ================================================================= claims
Done(r) == pc[r] = "done"
ResolvedObject(r) == reply[r].kind = "resolved" /\ reply[r].text.kind = "object"
Obj(r) == reply[r].text.val
NonEmpty(obj, k) == k \in DOMAIN obj /\ Len(obj[k]) > 0
NonEmptyKeys(obj) == {k \in Keys : NonEmpty(obj, k)}
SheetName(k) ==
    CASE k = "best_effort" -> "Mejor Resultado"
      [] k = "structured_view" -> "Vista Estructurada"
      [] OTHER -> "Datos Brutos"
Rank(name) ==
    CASE name = "Mejor Resultado" -> 1
      [] name = "Vista Estructurada" -> 2
      [] name = "Datos Brutos" -> 3
      [] OTHER -> 0
SheetsNamed(book, name) == {i \in 1..Len(book) : book[i].name = name}

\* C1: a request whose 9 second timer fired before generateContent returned
\* is answered with status 504 and a JSON error body and no spreadsheet, also
\* when the reply arrives after the deadline.
C1_DeadlineGives504 ==
    \A r \in Reqs :
        (timer[r] = "fired" /\ Done(r)) =>
            /\ resp[r].status = 504
            /\ resp[r].body = "json"
            /\ resp[r].sheets = <<>>

\* C2: every request that issued the AI call eventually receives a response,
\* even if the AI service never replies.
C2_CallEventuallyAnswered ==
    \A r \in Reqs : (aiCalls[r] > 0) ~> (nresp[r] > 0)

\* C3: an upload whose file in field pdf exceeds the size ceiling of the
\* deployment is answered with status 413 and no AI call is issued for it.
C3_OversizeGives413 ==
    \A r \in Reqs :
        (request[r].part = "pdf" /\ request[r].size > FileSizeLimit(target)) =>
            /\ aiCalls[r] = 0
            /\ Done(r) => resp[r].status = 413

\* C4: with GEMINI_API_KEY unset, a conversion request (here: one that
\* reached the handler with its file) is answered with status 500 and no AI
\* call is issued for it.
C4_NoCredentialNoCall ==
    \A r \in Reqs :
        (~apiKey /\ file[r]) =>
            /\ aiCalls[r] = 0
            /\ Done(r) => resp[r].status = 500

\* C5: a request without a file is answered with status 400 and a JSON error
\* body, and no AI call is issued for it.
C5_MissingFileGives400 ==
    \A r \in Reqs :
        request[r].part = "none" =>
            /\ aiCalls[r] = 0
            /\ Done(r) => /\ resp[r].status = 400
                          /\ resp[r].body = "json"
                          /\ resp[r].error # ""
                          /\ resp[r].sheets = <<>>

C5_Witness ==
    \E r \in Reqs : request[r].part = "none" /\ Done(r) /\ nresp[r] = 1

\* C6: the sheets of the workbook are in the order Mejor Resultado, Vista
\* Estructurada, Datos Brutos, whichever variants are non-empty, and no sheet
\* name appears twice.
C6_SheetOrderFixed ==
    \A r \in Reqs :
        \A book \in {wb[r], resp[r].sheets} :
            /\ \A i \in 1..Len(book) : Rank(book[i].name) > 0
            /\ \A i, j \in 1..Len(book) :
                   i < j => Rank(book[i].name) < Rank(book[j].name)

C6_Witness ==
    \E r \in Reqs :
        /\ resp[r].status = 200
        /\ Len(resp[r].sheets) = 2
        /\ resp[r].sheets[1].name = "Vista Estructurada"
        /\ resp[r].sheets[2].name = "Datos Brutos"

\* C7: when every non-empty variant of the reply holds exactly one table, the
\* workbook has exactly one sheet per non-empty variant and the rows of each
\* sheet are the rows of that table, in order, with no row before the first.
C7_SingleTableSheets ==
    \A r \in Reqs :
        (ResolvedObject(r) /\ \A k \in NonEmptyKeys(Obj(r)) : Len(Obj(r)[k]) = 1) =>
            /\ Len(wb[r]) = Cardinality(NonEmptyKeys(Obj(r)))
            /\ \A k \in NonEmptyKeys(Obj(r)) :
                   \E i \in 1..Len(wb[r]) :
                       /\ wb[r][i].name = SheetName(k)
                       /\ wb[r][i].rows = Obj(r)[k][1]
            /\ Len(wb[r]) > 0 => resp[r] = SendBuffer(wb[r])

C7_Witness ==
    \E r \in Reqs :
        /\ ResolvedObject(r)
        /\ Obj(r) = [k \in Keys |-> IF k = "best_effort" THEN << <<RowH, RowD>> >> ELSE <<>>]
        /\ resp[r].status = 200
        /\ Len(resp[r].sheets) = 1
        /\ resp[r].sheets[1].name = "Mejor Resultado"
        /\ Len(resp[r].sheets[1].rows) = 2

\* rows and separators that precede table t of data
RECURSIVE Offset(_, _)
Offset(data, t) == IF t = 1 THEN 0 ELSE Offset(data, t - 1) + Len(data[t - 1]) + 1

\* C8: the sheet of a variant with n >= 1 tables holds the rows of the tables
\* in table order, with exactly one empty row between successive tables and
\* none before the first or after the last; its row count is the sum of the
\* row counts of the tables plus n - 1.
C8_TablesSeparatedByOneRow ==
    \A r \in Reqs :
        ResolvedObject(r) =>
            \A k \in NonEmptyKeys(Obj(r)) :
                LET data == Obj(r)[k]
                    n == Len(data)
                IN  /\ Cardinality(SheetsNamed(wb[r], SheetName(k))) = 1
                    /\ \A i \in SheetsNamed(wb[r], SheetName(k)) :
                           LET rows == wb[r][i].rows
                           IN  /\ Len(rows) = Offset(data, n) + Len(data[n])
                               /\ \A t \in 1..n : \A j \in 1..Len(data[t]) :
                                      rows[Offset(data, t) + j] = data[t][j]
                               /\ \A t \in 2..n : rows[Offset(data, t)] = <<>>

C8_Witness ==
    \E r \in Reqs :
        /\ ResolvedObject(r)
        /\ "best_effort" \in DOMAIN Obj(r)
        /\ Obj(r)["best_effort"] = << <<RowH, RowD>>, <<RowH, RowD>> >>
        /\ resp[r].status = 200
        /\ resp[r].sheets[1].rows = <<RowH, RowD, <<>>, RowH, RowD>>

\* C9: for a reply in which any subset of the variants is absent or empty,
\* the request completes with the success response and the workbook has as
\* many sheets as there are present, non-empty variants, zero included.
C9_EmptyVariantsSucceed ==
    \A r \in Reqs :
        ResolvedObject(r) =>
            /\ resp[r].status = 200
            /\ resp[r].body = "xlsx"
            /\ Len(resp[r].sheets) = Cardinality(NonEmptyKeys(Obj(r)))

\* C10: a reply without body text (undefined or empty) is handled as the
\* reply {}: no parse error, no sheet, and the same response as a request
\* whose reply was {}.
C10_MissingBodyAsEmptyObject ==
    \A r \in Reqs :
        (reply[r].kind = "resolved" /\ reply[r].text \in {UndefinedText, EmptyText}) =>
            /\ resp[r].error # JSONParse(GarbageText).err.message
            /\ wb[r] = <<>>
            /\ \A o \in Reqs :
                   reply[o] = Resolved(BraceText) =>
                       resp[r] = resp[o] /\ wb[r] = wb[o]

C10_Witness ==
    \E r, o \in Reqs :
        /\ reply[r] = Resolved(UndefinedText)
        /\ reply[o] = Resolved(BraceText)
        /\ Done(r) /\ Done(o)

FailureStatuses == {400, 413, 500, 504}

\* C11: every response is either the success response carrying the
\* spreadsheet or a JSON body {error: message} with a status code in
\* {400, 413, 500, 504}, whatever the source of the failure.
C11_FailuresAreJsonErrors ==
    \A r \in Reqs :
        Done(r) =>
            \/ resp[r].status = 200 /\ resp[r].body = "xlsx"
            \/ /\ resp[r].body = "json"
               /\ resp[r].error # ""
               /\ resp[r].status \in FailureStatuses

\* C12: a request gets at most one response, and that response is either the
\* complete workbook or an error without any sheet; once sent it is final.
C12_OneResponse ==
    \A r \in Reqs :
        /\ nresp[r] <= 1
        /\ Done(r) <=> nresp[r] = 1
        /\ nresp[r] = 0 => resp[r] = NoResp
        /\ nresp[r] = 1 =>
               \/ /\ resp[r].status = 200 /\ resp[r].body = "xlsx"
                  /\ resp[r].sheets = wb[r] /\ Len(wb[r]) > 0
                  /\ resp[r].error = ""
               \/ /\ resp[r].status >= 400 /\ resp[r].body \in {"json", "html"}
                  /\ resp[r].sheets = <<>>

C12_Witness ==
    \E r, o \in Reqs :
        /\ nresp[r] = 1 /\ resp[r].status = 200 /\ timer[r] = "fired"
        /\ nresp[o] = 1 /\ resp[o].status = 500 /\ reply[o].kind = "resolved"

\* C13: when the AI call rejects with an error that is not an abort, or its
\* reply text is not JSON, or the assembly of the workbook throws, the
\* request is answered with status 500 and a JSON error message.
C13_UpstreamErrorsGive500 ==
    \A r \in Reqs :
        (\/ reply[r].kind = "rejected" /\ reply[r].err.name # "AbortError"
         \/ reply[r].kind = "resolved" /\ reply[r].text.kind \in {"garbage", "null"}
         \/ reply[r].kind = "resolved" /\ XLSXWrite(wb[r]) # NoErr) =>
            /\ resp[r].status = 500
            /\ resp[r].body = "json"
            /\ resp[r].error # ""
            /\ resp[r].sheets = <<>>

C13_Witness ==
    \E r, o \in Reqs :
        /\ target = "api"
        /\ reply[r].kind = "rejected" /\ reply[r].err.name = "ApiError"
        /\ resp[r].status = 500
        /\ reply[o] = Resolved(GarbageText)
        /\ resp[o].status = 500

\* C14: the AI call is issued at most once per request, whatever fails.
C14_SingleShot ==
    \A r \in Reqs : aiCalls[r] <= 1

C14_Witness ==
    \E r \in Reqs :
        reply[r].kind = "rejected" /\ Done(r) /\ aiCalls[r] = 1 /\ resp[r].status = 504

ReqState(r) ==
    <<pc[r], request[r], file[r], aiCalls[r], timer[r], aborted[r], reply[r],
      wb[r], resp[r], nresp[r]>>

\* C15: concurrent requests do not interfere: a step of one request changes
\* nothing of another request, and two requests with the same upload and the
\* same AI reply get the same response and workbook however they interleave.
C15_RequestsIndependent ==
    /\ [](\A r, o \in Reqs :
            (Done(r) /\ Done(o) /\ request[r] = request[o] /\ reply[r] = reply[o]) =>
                resp[r] = resp[o] /\ wb[r] = wb[o])
    /\ [][\A r, o \in Reqs :
            (r # o /\ ReqState(r)' # ReqState(r)) => ReqState(o)' = ReqState(o)]_vars

C15_Witness ==
    \E r, o \in Reqs :
        /\ r # o
        /\ pc[r] = "awaiting"
        /\ Done(o) /\ resp[o].status = 200 /\ Len(wb[o]) = 3
        /\ wb[r] = <<>>

\* C16: a request goes through validation, the credential check, the AI
\* call, parsing, assembly and sending in that order, each once: no AI call
\* before the upload was validated and the credential checked, no reply
\* without a call, no spreadsheet sent before the variants were assembled.
C16_StepsInOrder ==
    \A r \in Reqs :
        /\ aiCalls[r] <= 1
        /\ aiCalls[r] > 0 => file[r] /\ apiKey
        /\ file[r] => request[r].part = "pdf"
        /\ reply[r].kind # "none" => aiCalls[r] = 1 /\ Done(r)
        /\ resp[r].body = "xlsx" =>
               /\ reply[r].kind = "resolved"
               /\ resp[r].sheets = wb[r]
               /\ \A k \in NonEmptyKeys(Obj(r)) :
                      SheetsNamed(wb[r], SheetName(k)) # {}

\* C17: an upload error other than oversize is answered without reaching
\* the handler or the AI call, with a JSON error body: status 400 for a
\* multer error, status 500 for any other upload error.
C17_OtherUploadErrors ==
    \A r \in Reqs :
        /\ request[r].part \in {"doc", "malformed"} =>
               pc[r] \in {"upload", "done"} /\ aiCalls[r] = 0
        /\ (request[r].part = "doc" /\ Done(r)) =>
               resp[r].status = 400 /\ resp[r].body = "json"
        /\ (request[r].part = "malformed" /\ Done(r)) =>
               resp[r].status = 500 /\ resp[r].body = "json"

\* files that are not PDF documents
OtherFiles == {f \in Files : f.type # PdfType}

RejectedSelection ==
    /\ error' = InvalidPdfMessage
    /\ selectedFile' = selectedFile
    /\ status' = status
    /\ downloadUrl' = downloadUrl

\* C18: the client never submits a file whose type is not application/pdf:
\* handleFileChange and handleDrop given such a file only set the error
\* message and leave the selected file, the status and the download URL as
\* they were, so the selected file and every file sent passed the type test.
C18_OnlyPdfSubmitted ==
    /\ selectedFile # NoFile => selectedFile.type = PdfType
    /\ \A p \in pending : p.file.type = PdfType
    /\ \A f \in OtherFiles :
           /\ ~ENABLED (handleDrop(f) /\ ~RejectedSelection)
           /\ ~ENABLED (handleFileChange(f) /\ ~RejectedSelection)

C18_Witness ==
    /\ error = InvalidPdfMessage
    /\ selectedFile # NoFile
    /\ status = "processing"
    /\ \E p \in pending : p.file = selectedFile

\* timestamps of the cookie that lie in the 30 days before now
CookieRecent ==
    Cardinality({i \in DOMAIN cookie.uploads : now - cookie.uploads[i] < thirtyDaysInMs})

ConvertBlocked ==
    /\ sent' = sent
    /\ pending' = pending
    /\ status' = "error"
    /\ error' = LimitMessage

ConvertStarted ==
    /\ sent' = sent + 1
    /\ Cardinality(pending') = Cardinality(pending) + 1
    /\ status' = "processing"

\* C19: in App of server.ts, for a user who is not signed in and whose
\* cookie holds 3 or more uploads of the last 30 days, handleConvert sends
\* no request and shows the limit message in status error; for a signed-in
\* user handleConvert always sends the request, whatever the cookie holds.
C19_LimitBlocksUnregistered ==
    client = "server.ts" =>
        /\ (~user /\ cookie.set /\ CookieRecent >= UploadLimit) =>
               ~ENABLED (handleConvert /\ ~ConvertBlocked)
        /\ user => ~ENABLED (handleConvert /\ ~ConvertStarted)

C19_Witness ==
    /\ client = "server.ts"
    /\ ~user /\ cookie.set /\ CookieRecent >= UploadLimit
    /\ status = "error" /\ error = LimitMessage
    /\ pending = {}
    /\ sent < MaxConversions

\* uploads of the cookie in the 30 days that begin at day t0
WindowCount(t0) ==
    Cardinality({j \in DOMAIN cookie.uploads :
                    cookie.uploads[j] >= t0 /\ cookie.uploads[j] - t0 < thirtyDaysInMs})

\* C20: however file selections, drops, conversions, retries and replies of
\* the server interleave, the cookie of a user who is not signed in never
\* holds more than 3 conversions within one window of 30 days.
C20_LimitNeverExceeded ==
    \A i \in DOMAIN cookie.uploads : WindowCount(cookie.uploads[i]) <= UploadLimit

\* the fetch of conversion p settles in this step
Settles(p) == p \in pending /\ pending' = pending \ {p}

\* C21: the cookie pdf_uploads changes only in the step where a conversion
\* started by a user who was not signed in succeeds, and that step appends
\* exactly one timestamp, the present one, to the uploads read from the
\* cookie; a failed conversion, a conversion blocked by the limit and the
\* success of a conversion started by a signed-in user leave the cookie as
\* it was.
C21_CookieChangesOnlyOnSuccess ==
    [][ /\ cookie' # cookie =>
               /\ client = "server.ts"
               /\ \E p \in pending : Settles(p) /\ ~p.user /\ status' = "success"
        /\ \A p \in pending :
               /\ (Settles(p) /\ status' = "error") => cookie' = cookie
               /\ (Settles(p) /\ status' = "success" /\ p.user) => cookie' = cookie
               /\ (Settles(p) /\ status' = "success" /\ ~p.user /\ client = "server.ts") =>
                      /\ cookie'.set
                      /\ cookie'.uploads = SliceLast(Append(CookiesGet(cookie, now), now))
                      /\ Len(CookiesGet(cookie, now)) < KeepLast =>
                             Len(cookie'.uploads) = Len(CookiesGet(cookie, now)) + 1
        /\ (status' = "error" /\ error' = LimitMessage /\ pending' = pending) =>
               cookie' = cookie
      ]_vars

\* two conversions were started and both settled, one of them recorded
C21_Witness ==
    /\ client = "server.ts"
    /\ sent = 2 /\ pending = {}
    /\ status = "success"
    /\ cookie.set /\ Len(cookie.uploads) = 1

\* C22: in status success the download URL is not null and is the result of
\* the conversion of the file that is selected.
C22_SuccessUrlOfSelectedFile ==
    status = "success" => downloadUrl # NullUrl /\ downloadUrl = selectedFile.id

\* C23: at most one request to /api/convert is in flight.
C23_OneRequestInFlight == Cardinality(pending) <= 1

\* C24: in status error the error message is not null.
C24_ErrorHasMessage == status = "error" => error # NullError

Statuses == {"idle", "uploading", "processing", "success", "error"}

\* C25: the step in which the fetch of a conversion settles leaves the status
\* success or error; the status is processing only while a fetch is awaited;
\* the status uploading is never reached.
C25_ProcessingEnds ==
    /\ [](status \in Statuses \ {"uploading"})
    /\ [](status = "processing" => pending # {})
    /\ [][\A p \in pending : Settles(p) => status' \in {"success", "error"}]_vars

\* the fetch of the one conversion that was started was rejected
C25_Witness ==
    /\ sent = 1 /\ pending = {}
    /\ status = "error"
    /\ error = ErrorMessage("network")

\* the failure conditions of a request, as they are sent
Oversize(r) == request[r].part = "pdf" /\ request[r].size > MAX_FILE_SIZE
UploadFails(r) == Oversize(r) \/ request[r].part \in {"doc", "malformed"}
MissingFile(r) == request[r].part = "none"

\* C26: in api/index.ts the response is decided by the first check that
\* fails, in the order upload error (413 oversize, 400 other multer error,
\* 500 other error), missing file (400), missing credential (500), AI call:
\* a request with an upload error or without a file gets its status with or
\* without the credential, and the AI call is issued only when none of the
\* three holds.
C26_FirstFailingCheckDecides ==
    target = "api" =>
        \A r \in Reqs :
            /\ aiCalls[r] > 0 => ~UploadFails(r) /\ ~MissingFile(r) /\ apiKey
            /\ Done(r) =>
                   /\ Oversize(r) => resp[r].status = 413
                   /\ request[r].part = "doc" => resp[r].status = 400
                   /\ request[r].part = "malformed" => resp[r].status = 500
                   /\ MissingFile(r) => resp[r].status = 400
                   /\ (~UploadFails(r) /\ ~MissingFile(r) /\ ~apiKey) =>
                          resp[r].status = 500 /\ aiCalls[r] = 0
                   /\ (~UploadFails(r) /\ ~MissingFile(r) /\ apiKey) => aiCalls[r] = 1

\* without the credential, a request without a file and an oversize upload
\* have both been answered
C26_Witness ==
    /\ target = "api" /\ ~apiKey
    /\ \E r, o \in Reqs :
           /\ MissingFile(r) /\ Done(r) /\ resp[r].status = 400
           /\ Oversize(o) /\ Done(o) /\ resp[o].status = 413
====
